---- MODULE Spec2Model ----
(***************************************************************************)
(* A model of frame-ocr (src/src/main.rs): process start-up (the           *)
(* lazy_static OCR_ENGINE forced by main, then bind and run), the request  *)
(* handler process_image run concurrently for several requests, and the    *)
(* pure function format_text_output.                                       *)
(*                                                                         *)
(* A Rust String is a sequence of one-character strings.  A Result is a    *)
(* record with an ok flag, an Option a record with a some flag.            *)
(***************************************************************************)
EXTENDS Integers, Sequences, FiniteSets, TLC

(* ------------------------------ bounds -------------------------------- *)

\* Number of requests that may be in flight at once.
MaxRequests == 2

\* The largest number of text lines the engine finds in one served image.
MaxDetected == 1

\* Longest result set given to format_text_output in SpecFormat.
MaxLines == 3

\* Longest text line (in characters) given to format_text_output.
MaxLineLen == 2

Requests == 1..MaxRequests

(* ------------------------- Result and Option -------------------------- *)

Ok(v) == [ok |-> TRUE, value |-> v]

Err(e) == [ok |-> FALSE, value |-> e]

Some(v) == [some |-> TRUE, value |-> v]

None == [some |-> FALSE, value |-> <<>>]

\* Result::expect: TRUE when the call panics (the Result is an Err).
expect_ignored(result) == FALSE

expect(result) == ~result.ok

(* ------------------------------ strings ------------------------------- *)

NL == "\n"

Chars == {"A", "B"}

\* ocrs::TextLine: the recognised characters of one line, each with the
\* place it was found at.  ocrs never builds a TextLine without characters.
TextChar(c, k) == [char |-> c, rect |-> k]

TextLinesUpTo(n) ==
    UNION { [1..k -> {TextChar(c, 0) : c \in Chars}] : k \in 1..n }

\* TextLine's Display, used by to_string: the characters without geometry.
to_string(line) == [i \in 1..Len(line) |-> line[i].char]

\* [String]::join
RECURSIVE join(_, _)
join(strs, sep) ==
    IF Len(strs) = 0 THEN <<>>
    ELSE IF Len(strs) = 1 THEN strs[1]
    ELSE strs[1] \o <<sep>> \o join(Tail(strs), sep)

\* Iterator::flatten over a slice of Options: the present values, in order.
RECURSIVE flatten(_)
flatten(opts) ==
    IF Len(opts) = 0 THEN <<>>
    ELSE IF opts[1].some THEN <<opts[1].value>> \o flatten(Tail(opts))
    ELSE flatten(Tail(opts))

\* A variant that keeps an absent entry as an empty line.
format_text_output_blank(text_lines) ==
    join([i \in 1..Len(text_lines) |->
            IF text_lines[i].some THEN to_string(text_lines[i].value)
            ELSE <<>>], NL)

\* A variant that ends every line, and so the output, with a newline.
format_text_output_trailing(text_lines) ==
    LET present == flatten(text_lines)
    IN  join([i \in 1..Len(present) |-> to_string(present[i])], NL) \o <<NL>>

format_text_output(text_lines) ==
    LET present == flatten(text_lines)
        lines == [i \in 1..Len(present) |-> to_string(present[i])]
    IN  join(lines, NL)

(* --------------------------- request bodies --------------------------- *)

\* Bodies that image::load_from_memory_with_format(_, Png) decodes, with
\* the dimensions of the picture each holds.
PngBodies == {"png_a", "png_b"}

\* A body it rejects.
NonPngBodies == {"GIF89a"}

Bodies == PngBodies \cup NonPngBodies

dimensions(b) == IF b = "png_a" THEN <<2, 1>> ELSE <<1, 1>>

load_from_memory_with_format(stream) ==
    IF stream \in PngBodies
    THEN Ok([width |-> dimensions(stream)[1],
             height |-> dimensions(stream)[2],
             pixels |-> stream])
    ELSE Err("decoding")

\* into_rgb8, then NdTensor::from_data([height, width, in_chans], data).
in_chans == 3

NdTensor_from_image(image) ==
    [shape |-> <<image.height, image.width, in_chans>>, data |-> image.pixels]

NoTensor == [shape |-> <<0, 0, 0>>, data |-> ""]

\* ImageSource::from_tensor(view, DimOrder::Hwc): one, three or four
\* channels are accepted.
ImageSource_from_tensor(tensor) ==
    IF tensor.shape[3] \in {1, 3, 4} THEN Ok(tensor) ELSE Err("channels")

\* web::Payload::to_bytes fails with a PayloadError; the `?` of the handler
\* returns it, and the framework renders it with the error's own status.
PayloadErrors == {"Incomplete", "Overflow"}

PayloadErrorStatus_internal(e) == 500

PayloadErrorStatus(e) == IF e = "Overflow" THEN 413 ELSE 400

(* ----------------------------- the engine ----------------------------- *)

\* What one engine does with one image: the stage that fails ("none" when
\* all succeed), the number of text lines it finds and the recognised
\* lines.  Recognition runs the model once per line, so it cannot fail on
\* an image without lines.  Served images hold one word per line, and a
\* line that is recognised reads "A".
ServedLines == {<<TextChar("A", 0)>>}

OptLines(lines) == {None} \cup {Some(l) : l \in lines}

ImageOutcomes ==
    { [fails |-> f, lines |-> 0, texts |-> <<>>] :
        f \in {"prepare_input", "detect_words"} }
    \cup { [fails |-> "recognize_text", lines |-> n, texts |-> <<>>] :
             n \in 1..MaxDetected }
    \cup UNION { { [fails |-> "none", lines |-> n, texts |-> t] :
                     t \in [1..n -> OptLines(ServedLines)] } :
                 n \in 0..MaxDetected }

\* The engines OcrEngine::new can return: one behaviour per pair of loaded
\* models.  The handle is immutable: all its methods take &self.
EngineBehaviours == [PngBodies -> ImageOutcomes]

Uninit == [ready |-> FALSE, behaviour |-> <<>>]

Engine(bhv) == [ready |-> TRUE, behaviour |-> bhv]

NoInput == [image |-> NoTensor]

prepare_input(engine, source) ==
    IF engine.behaviour[source.data].fails = "prepare_input"
    THEN Err("prepare_input")
    ELSE Ok([image |-> source])

detect_words(engine, ocr_input) ==
    LET o == engine.behaviour[ocr_input.image.data]
    IN  IF o.fails = "detect_words" THEN Err("detect_words")
        ELSE Ok([i \in 1..o.lines |-> i])

find_text_lines(engine, ocr_input, word_rects) ==
    [i \in 1..Len(word_rects) |-> <<word_rects[i]>>]

recognize_text(engine, ocr_input, line_rects) ==
    LET o == engine.behaviour[ocr_input.image.data]
    IN  IF Len(line_rects) > 0 /\ o.fails = "recognize_text"
        THEN Err("recognize_text")
        ELSE Ok([i \in 1..Len(line_rects) |-> o.texts[i]])

(* ------------------------------ responses ----------------------------- *)

Response(status, body) == [status |-> status, body |-> body]

BadRequest(body) == Response(400, body)

HttpOk(body) == Response(200, body)

\* "Failed to load image"
FailedToLoadImage ==
    <<"F","a","i","l","e","d"," ","t","o"," ","l","o","a","d"," ",
      "i","m","a","g","e">>

\* "Failed to detect words"
FailedToDetectWords ==
    <<"F","a","i","l","e","d"," ","t","o"," ","d","e","t","e","c","t"," ",
      "w","o","r","d","s">>

LoadImageFailure_internal == Response(500, FailedToLoadImage)

LoadImageFailure == BadRequest(FailedToLoadImage)

DetectWordsFailure_swapped == BadRequest(FailedToLoadImage)

DetectWordsFailure == BadRequest(FailedToDetectWords)

\* The Err the `?` after to_bytes returns, as the framework renders it: the
\* error's status, and its Display text (kept as one token) as the body.
ErrorResponse(e) == Response(PayloadErrorStatus(e), <<e>>)

(* -------------------------------- state ------------------------------- *)

VARIABLES
    main_pc,            \* where main is
    init_pc,            \* the Once of the lazy_static OCR_ENGINE
    detection_model,    \* outcome of load_model for the detection model
    recognition_model,  \* outcome of load_model for the recognition model
    OCR_ENGINE,         \* the static: Uninit, or the engine built
    constructions,      \* how often the initializer of OCR_ENGINE was entered
    listener,           \* the socket of HttpServer
    accepted,           \* whether a request was ever handed to process_image
    req,                \* per request: position and locals of process_image
    text_lines,         \* SpecFormat: the argument of format_text_output
    formatted           \* SpecFormat: its result

vars == <<main_pc, init_pc, detection_model, recognition_model, OCR_ENGINE,
          constructions, listener, accepted, req, text_lines, formatted>>

startup_vars == <<main_pc, init_pc, detection_model, recognition_model,
                  OCR_ENGINE, constructions, listener>>

format_vars == <<text_lines, formatted>>

\* A request slot no request occupies; the locals of process_image unset.
IdleReq ==
    [pc |-> "idle", payload |-> "", stream |-> "", color_img |-> NoTensor,
     engine |-> Uninit, ocr_input |-> NoInput, word_rects |-> <<>>,
     line_rects |-> <<>>, line_texts |-> <<>>, output_text |-> <<>>,
     calls |-> <<>>, responses |-> <<>>]

Call(op, ok) == [op |-> op, ok |-> ok]

NotFormatted == [done |-> FALSE, out |-> <<>>]

\* main starts by forcing the static (initialize(&OCR_ENGINE)).
MainEntry_bind == "bind"

MainEntry == "initialize"

Init ==
    /\ main_pc = MainEntry
    /\ init_pc = "incomplete"
    /\ detection_model = "unloaded"
    /\ recognition_model = "unloaded"
    /\ OCR_ENGINE = Uninit
    /\ constructions = 0
    /\ listener = "unbound"
    /\ accepted = FALSE
    /\ req = [r \in Requests |-> IdleReq]
    /\ text_lines = <<>>
    /\ formatted = NotFormatted

(* ------------------------------- start-up ----------------------------- *)

\* models::load_model: a model handle, or a load error.
load_model(src) == {Ok(src), Err("load")}

LoadState(res) == IF res.ok THEN "loaded" ELSE "failed"

\* initialize(&OCR_ENGINE): the Once is incomplete, so main runs the
\* initializer block.
Initialize ==
    /\ main_pc = "initialize"
    /\ init_pc = "incomplete"
    /\ init_pc' = "detection"
    /\ constructions' = constructions + 1
    /\ UNCHANGED <<main_pc, detection_model, recognition_model, OCR_ENGINE,
                   listener, accepted, req, format_vars>>

\* load_model(detection_model_src).expect(..): a panic in the initializer
\* poisons the Once and unwinds main.
LoadDetectionModel ==
    /\ init_pc = "detection"
    /\ \E res \in load_model("DETECTION_MODEL") :
          /\ detection_model' = LoadState(res)
          /\ IF expect(res)
             THEN init_pc' = "poisoned" /\ main_pc' = "terminated"
             ELSE init_pc' = "recognition" /\ main_pc' = main_pc
    /\ UNCHANGED <<recognition_model, OCR_ENGINE, constructions, listener,
                   accepted, req, format_vars>>

LoadRecognitionModel ==
    /\ init_pc = "recognition"
    /\ \E res \in load_model("RECOGNITION_MODEL") :
          /\ recognition_model' = LoadState(res)
          /\ IF expect(res)
             THEN init_pc' = "poisoned" /\ main_pc' = "terminated"
             ELSE init_pc' = "engine_new" /\ main_pc' = main_pc
    /\ UNCHANGED <<detection_model, OCR_ENGINE, constructions, listener,
                   accepted, req, format_vars>>

\* OcrEngine::new(..).expect(..), the end of the initializer and of
\* initialize: main goes on to bind.
EngineNew ==
    /\ init_pc = "engine_new"
    /\ \E res \in {Ok(Engine(b)) : b \in EngineBehaviours}
                    \cup {Err("engine")} :
          IF expect(res)
          THEN /\ init_pc' = "poisoned"
               /\ main_pc' = "terminated"
               /\ OCR_ENGINE' = OCR_ENGINE
          ELSE /\ init_pc' = "complete"
               /\ main_pc' = "bind"
               /\ OCR_ENGINE' = IF res.ok THEN res.value ELSE OCR_ENGINE
    /\ UNCHANGED <<detection_model, recognition_model, constructions,
                   listener, accepted, req, format_vars>>

\* HttpServer::new(..).bind("0.0.0.0:8080")?: on an error main returns it.
Bind ==
    /\ main_pc = "bind"
    /\ \E ok \in BOOLEAN :
          IF ok
          THEN main_pc' = "run" /\ listener' = "bound"
          ELSE main_pc' = "terminated" /\ listener' = listener
    /\ UNCHANGED <<init_pc, detection_model, recognition_model, OCR_ENGINE,
                   constructions, accepted, req, format_vars>>

\* .run().await: the workers start accepting connections.
Run ==
    /\ main_pc = "run"
    /\ main_pc' = "serving"
    /\ listener' = "accepting"
    /\ UNCHANGED <<init_pc, detection_model, recognition_model, OCR_ENGINE,
                   constructions, accepted, req, format_vars>>

(* ---------------------------- process_image --------------------------- *)

Set(r, rec) == req' = [req EXCEPT ![r] = rec]

Logged(q, op, ok) == [q EXCEPT !.calls = Append(q.calls, Call(op, ok))]

\* A panic in process_image unwinds the task that runs the handler: the
\* request ends without a response, and the server that spawned the task
\* is where it was.
task_panic_abort(m) == "terminated"

task_panic(m) == m

Aborted(q) == [q EXCEPT !.pc = "aborted"]

\* The handler returns a response: it is written out and the call is over.
Returned(q, response) ==
    [q EXCEPT !.pc = "done", !.responses = Append(q.responses, response)]

\* The worker hands a POST /process to process_image.
Accept(r) ==
    /\ main_pc = "serving"
    /\ req[r].pc = "idle"
    /\ \E b \in Bodies :
          Set(r, [IdleReq EXCEPT !.pc = "to_bytes", !.payload = b])
    /\ accepted' = TRUE
    /\ UNCHANGED <<startup_vars, format_vars>>

\* payload.to_bytes().await?: the whole body, or the payload's error.
ReadBody(r) ==
    /\ main_pc = "serving"
    /\ req[r].pc = "to_bytes"
    /\ \E res \in {Ok(req[r].payload)} \cup {Err(e) : e \in PayloadErrors} :
          IF res.ok
          THEN Set(r, [Logged(req[r], "to_bytes", TRUE)
                         EXCEPT !.pc = "decode", !.stream = res.value])
          ELSE Set(r, Returned(Logged(req[r], "to_bytes", FALSE),
                               ErrorResponse(res.value)))
    /\ UNCHANGED <<startup_vars, accepted, format_vars>>

\* load_from_memory_with_format and the match on its mapped result.
DecodePng(r) ==
    /\ main_pc = "serving"
    /\ req[r].pc = "decode"
    /\ LET img == load_from_memory_with_format(req[r].stream)
           q == Logged(req[r], "load_from_memory_with_format", img.ok)
       IN  IF img.ok
           THEN Set(r, [q EXCEPT !.pc = "prepare",
                                 !.color_img = NdTensor_from_image(img.value)])
           ELSE Set(r, Returned(q, LoadImageFailure))
    /\ UNCHANGED <<startup_vars, accepted, format_vars>>

\* &OCR_ENGINE (the deref of the lazy static: the value when the Once is
\* complete, a run of the initializer when it is not, a panic when it is
\* poisoned), ImageSource::from_tensor(..).expect(..) and
\* engine.prepare_input(..).expect(..).
PrepareInput(r) ==
    /\ main_pc = "serving"
    /\ req[r].pc = "prepare"
    /\ \E e \in IF OCR_ENGINE.ready \/ init_pc = "poisoned"
                THEN {OCR_ENGINE}
                ELSE {Engine(b) : b \in EngineBehaviours} :
          LET built == ~OCR_ENGINE.ready /\ e.ready
              src == ImageSource_from_tensor(req[r].color_img)
              inp == IF e.ready /\ src.ok
                     THEN prepare_input(e, src.value)
                     ELSE Err("engine")
              q == [req[r] EXCEPT !.engine = e]
          IN  /\ OCR_ENGINE' = e
              /\ constructions' = constructions + (IF built THEN 1 ELSE 0)
              /\ init_pc' = IF built THEN "complete" ELSE init_pc
              /\ detection_model' =
                    IF built THEN "loaded" ELSE detection_model
              /\ recognition_model' =
                    IF built THEN "loaded" ELSE recognition_model
              /\ IF ~e.ready \/ expect(src)
                 THEN /\ Set(r, Aborted(q))
                      /\ main_pc' = task_panic(main_pc)
                 ELSE IF expect(inp)
                 THEN /\ Set(r, Aborted(Logged(q, "prepare_input", FALSE)))
                      /\ main_pc' = task_panic(main_pc)
                 ELSE /\ Set(r, [Logged(q, "prepare_input", TRUE)
                                   EXCEPT !.pc = "detect",
                                          !.ocr_input =
                                             IF inp.ok THEN inp.value
                                             ELSE NoInput])
                      /\ main_pc' = main_pc
    /\ UNCHANGED <<listener, accepted, format_vars>>

\* After the Err arm of the match on detect_words the handler has returned.
AfterDetectError_continue == "find_lines"

AfterDetectError == "done"

\* engine.detect_words(&ocr_input) and the match on its result.
DetectWords(r) ==
    /\ main_pc = "serving"
    /\ req[r].pc = "detect"
    /\ LET rects == detect_words(req[r].engine, req[r].ocr_input)
           q == Logged(req[r], "detect_words", rects.ok)
       IN  IF rects.ok
           THEN Set(r, [q EXCEPT !.pc = "find_lines",
                                 !.word_rects = rects.value])
           ELSE Set(r, [Returned(q, DetectWordsFailure)
                          EXCEPT !.pc = AfterDetectError])
    /\ UNCHANGED <<startup_vars, accepted, format_vars>>

\* engine.find_text_lines(&ocr_input, &word_rects)
FindTextLines(r) ==
    /\ main_pc = "serving"
    /\ req[r].pc = "find_lines"
    /\ Set(r, [Logged(req[r], "find_text_lines", TRUE)
                 EXCEPT !.pc = "recognize",
                        !.line_rects =
                           find_text_lines(req[r].engine, req[r].ocr_input,
                                           req[r].word_rects)])
    /\ UNCHANGED <<startup_vars, accepted, format_vars>>

\* engine.recognize_text(&ocr_input, &line_rects).expect(..)
RecognizeText(r) ==
    /\ main_pc = "serving"
    /\ req[r].pc = "recognize"
    /\ LET texts == recognize_text(req[r].engine, req[r].ocr_input,
                                   req[r].line_rects)
           q == Logged(req[r], "recognize_text", texts.ok)
       IN  IF expect(texts)
           THEN /\ Set(r, Aborted(q))
                /\ main_pc' = task_panic(main_pc)
           ELSE /\ Set(r, [q EXCEPT !.pc = "format",
                                    !.line_texts =
                                       IF texts.ok THEN texts.value
                                       ELSE <<>>])
                /\ main_pc' = main_pc
    /\ UNCHANGED <<init_pc, detection_model, recognition_model, OCR_ENGINE,
                   constructions, listener, accepted, format_vars>>

\* let output_text = format_text_output(&line_texts);
FormatOutput(r) ==
    /\ main_pc = "serving"
    /\ req[r].pc = "format"
    /\ Set(r, [Logged(req[r], "format_text_output", TRUE)
                 EXCEPT !.pc = "respond",
                        !.output_text = format_text_output(req[r].line_texts)])
    /\ UNCHANGED <<startup_vars, accepted, format_vars>>

\* The body of the success response is this request's own output_text.
ResponseBody_shared(r) == req[1].output_text

ResponseBody(r) == req[r].output_text

\* Ok(HttpResponse::Ok().body(output_text))
Respond(r) ==
    /\ main_pc = "serving"
    /\ req[r].pc = "respond"
    /\ Set(r, Returned(req[r], HttpOk(ResponseBody(r))))
    /\ UNCHANGED <<startup_vars, accepted, format_vars>>

\* The call is over (a response was written, or the task was dropped) and
\* its locals are gone; the slot can take another request.
Close(r) ==
    /\ main_pc = "serving"
    /\ req[r].pc \in {"done", "aborted"}
    /\ Set(r, IdleReq)
    /\ UNCHANGED <<startup_vars, accepted, format_vars>>

Handler ==
    \E r \in Requests :
       \/ Accept(r)
       \/ ReadBody(r)
       \/ DecodePng(r)
       \/ PrepareInput(r)
       \/ DetectWords(r)
       \/ FindTextLines(r)
       \/ RecognizeText(r)
       \/ FormatOutput(r)
       \/ Respond(r)
       \/ Close(r)

Next ==
    \/ Initialize
    \/ LoadDetectionModel
    \/ LoadRecognitionModel
    \/ EngineNew
    \/ Bind
    \/ Run
    \/ Handler

Spec == Init /\ [][Next]_vars

(* ------------------- format_text_output on its own -------------------- *)

FormatInputs ==
    UNION { [1..n -> OptLines(TextLinesUpTo(MaxLineLen))] : n \in 0..MaxLines }

InitFormat ==
    /\ main_pc = MainEntry
    /\ init_pc = "incomplete"
    /\ detection_model = "unloaded"
    /\ recognition_model = "unloaded"
    /\ OCR_ENGINE = Uninit
    /\ constructions = 0
    /\ listener = "unbound"
    /\ accepted = FALSE
    /\ req = [r \in Requests |-> IdleReq]
    /\ text_lines \in FormatInputs
    /\ formatted = NotFormatted

Format ==
    /\ ~formatted.done
    /\ formatted' = [done |-> TRUE, out |-> format_text_output(text_lines)]
    /\ UNCHANGED <<startup_vars, accepted, req, text_lines>>

NextFormat == Format

SpecFormat == InitFormat /\ [][NextFormat]_vars

(* ------------------------------ properties ---------------------------- *)

Called(q, op) == \E i \in 1..Len(q.calls) : q.calls[i].op = op

Succeeded(q, op) == \E i \in 1..Len(q.calls) : q.calls[i] = Call(op, TRUE)

Failed(q, op) == \E i \in 1..Len(q.calls) : q.calls[i] = Call(op, FALSE)

EngineOps ==
    {"prepare_input", "detect_words", "find_text_lines", "recognize_text"}

Ended(q) == q.pc \in {"done", "aborted"}

\* C1: a request whose body was read and is not a PNG image is answered
\* with 400 "Failed to load image" by the decode step, no engine operation
\* is ever invoked for it, and the server is still serving.
C1_NonPngIsBadRequest ==
    \A r \in Requests :
       (Succeeded(req[r], "to_bytes") /\ req[r].stream \notin PngBodies)
       => /\ \A op \in EngineOps : ~Called(req[r], op)
          /\ req[r].pc \in {"decode", "done"}
          /\ req[r].pc = "done"
             => req[r].responses = <<Response(400, FailedToLoadImage)>>
          /\ main_pc = "serving"
          /\ listener = "accepting"

C1_Witness ==
    \E r \in Requests :
       /\ req[r].pc = "done"
       /\ req[r].stream = "GIF89a"
       /\ Failed(req[r], "load_from_memory_with_format")
       /\ Len(req[r].responses) = 1

\* C2: once a request has been handed to the handler, whatever became of it
\* and of the requests after it, the server is in its serving state and the
\* listener accepts connections.
C2_ListenerKeepsServing ==
    accepted => main_pc = "serving" /\ listener = "accepting"

C2_Witness ==
    \E r1, r2 \in Requests :
       /\ req[r1].pc = "aborted"
       /\ Failed(req[r1], "recognize_text")
       /\ req[r2].pc = "to_bytes"
       /\ main_pc = "serving"

\* C3: the initializer of OCR_ENGINE is entered at most once; whenever the
\* listener is bound or a request was accepted it has completed, with both
\* models loaded; and every request that took the engine holds the one
\* engine of the static.
C3_EngineBuiltOnceBeforeServing ==
    /\ constructions <= 1
    /\ (listener # "unbound" \/ accepted \/ main_pc \in {"run", "serving"})
       => /\ init_pc = "complete"
          /\ OCR_ENGINE.ready
          /\ constructions = 1
          /\ detection_model = "loaded"
          /\ recognition_model = "loaded"
    /\ \A r \in Requests :
          /\ req[r].pc # "idle" => OCR_ENGINE.ready
          /\ Called(req[r], "prepare_input")
             => req[r].engine.ready /\ req[r].engine = OCR_ENGINE

C3_Witness ==
    \E r1, r2 \in Requests :
       /\ r1 # r2
       /\ req[r1].pc = "detect"
       /\ req[r2].pc = "recognize"
       /\ req[r1].engine = req[r2].engine
       /\ constructions = 1

\* C4: when a model load has failed the process is terminated, the listener
\* was never bound and no request was ever handled.
C4_LoadFailureStopsStartup ==
    (detection_model = "failed" \/ recognition_model = "failed")
    => /\ main_pc = "terminated"
       /\ listener = "unbound"
       /\ ~accepted
       /\ \A r \in Requests : req[r] = IdleReq

C4_Witness ==
    /\ detection_model = "loaded"
    /\ recognition_model = "failed"
    /\ main_pc = "terminated"

\* C5: a request whose detect_words failed has been answered with 400
\* "Failed to detect words", and neither find_text_lines nor recognize_text
\* was invoked for it.
C5_DetectFailureIsBadRequest ==
    \A r \in Requests :
       Failed(req[r], "detect_words")
       => /\ Succeeded(req[r], "load_from_memory_with_format")
          /\ Succeeded(req[r], "prepare_input")
          /\ req[r].pc = "done"
          /\ req[r].responses = <<Response(400, FailedToDetectWords)>>
          /\ ~Called(req[r], "find_text_lines")
          /\ ~Called(req[r], "recognize_text")

C5_Witness ==
    \E r \in Requests :
       /\ Failed(req[r], "detect_words")
       /\ req[r].pc = "done"
       /\ Len(req[r].responses) = 1

ShortMessages ==
    {FailedToLoadImage, FailedToDetectWords} \cup {<<e>> : e \in PayloadErrors}

\* C6: a request that ended after a failed step either got exactly one
\* response, of status 4xx with a short message (the body could not be
\* read or decoded, or detect_words failed), or was dropped with no
\* response (prepare_input or recognize_text failed); a request without a
\* failed step was not dropped and got no error response.
C6_FailureOutcomes ==
    \A r \in Requests :
       LET q == req[r]
           failure == \E i \in 1..Len(q.calls) : ~q.calls[i].ok
       IN  Ended(q)
           => /\ failure
                 => \/ /\ q.pc = "done"
                       /\ Len(q.responses) = 1
                       /\ q.responses[1].status \in 400..499
                       /\ q.responses[1].body \in ShortMessages
                       /\ \/ Failed(q, "to_bytes")
                          \/ Failed(q, "load_from_memory_with_format")
                          \/ Failed(q, "detect_words")
                    \/ /\ q.pc = "aborted"
                       /\ q.responses = <<>>
                       /\ \/ Failed(q, "prepare_input")
                          \/ Failed(q, "recognize_text")
              /\ ~failure
                 => /\ q.pc = "done"
                    /\ Len(q.responses) = 1
                    /\ q.responses[1].status = 200

C6_Witness ==
    \E r1, r2 \in Requests :
       /\ req[r1].pc = "aborted"
       /\ Failed(req[r1], "prepare_input")
       /\ req[r2].pc = "done"
       /\ Failed(req[r2], "to_bytes")
       /\ req[r2].responses[1].status = 400

\* str::split: the pieces of s between the separators.
RECURSIVE SplitAcc(_, _, _, _)
SplitAcc(s, sep, acc, cur) ==
    IF Len(s) = 0 THEN Append(acc, cur)
    ELSE IF Head(s) = sep THEN SplitAcc(Tail(s), sep, Append(acc, cur), <<>>)
    ELSE SplitAcc(Tail(s), sep, acc, Append(cur, Head(s)))

Split(s, sep) == SplitAcc(s, sep, <<>>, <<>>)

PresentStrings(tl) ==
    LET present == SelectSeq(tl, LAMBDA o : o.some)
    IN  [i \in 1..Len(present) |-> to_string(present[i].value)]

Count(s, c) == Cardinality({i \in 1..Len(s) : s[i] = c})

LineA == <<TextChar("A", 0)>>

LineB == <<TextChar("B", 0)>>

\* C7: the output of format_text_output is empty when no entry is present;
\* otherwise splitting it at the newlines gives back exactly the string
\* forms of the present entries, in their order, so it holds one newline
\* less than there are present entries; [Some("A"), None, Some("B")] gives
\* "A\nB".
C7_FormatJoinsPresentLines ==
    formatted.done
    => LET ps == PresentStrings(text_lines)
       IN  /\ Len(ps) = 0 => formatted.out = <<>>
           /\ Len(ps) > 0
              => /\ Split(formatted.out, NL) = ps
                 /\ Count(formatted.out, NL) = Len(ps) - 1
           /\ text_lines = <<Some(LineA), None, Some(LineB)>>
              => formatted.out = <<"A", NL, "B">>

C7_Witness ==
    /\ formatted.done
    /\ text_lines = <<Some(LineA), None, Some(LineB)>>
    /\ formatted.out = <<"A", NL, "B">>

\* C8: a request whose image decoded and in which detect_words found no
\* word is never dropped, formats the empty result set to the empty string
\* and is answered with 200 and an empty body.
C8_NoTextIsEmptyOk ==
    \A r \in Requests :
       LET q == req[r]
       IN  (Succeeded(q, "detect_words") /\ q.word_rects = <<>>)
           => /\ q.pc # "aborted"
              /\ Called(q, "recognize_text") => q.line_texts = <<>>
              /\ Called(q, "format_text_output") => q.output_text = <<>>
              /\ q.pc = "done" => q.responses = <<Response(200, <<>>)>>

C8_Witness ==
    \E r \in Requests :
       /\ req[r].pc = "done"
       /\ Succeeded(req[r], "detect_words")
       /\ req[r].word_rects = <<>>
       /\ req[r].responses = <<Response(200, <<>>)>>

\* C9: two requests that read the same body and have ended, whatever ran
\* between or beside them, ended the same way with the same response.
C9_SameBodySameResponse ==
    \A r1, r2 \in Requests :
       ( /\ Ended(req[r1]) /\ Ended(req[r2])
         /\ Succeeded(req[r1], "to_bytes") /\ Succeeded(req[r2], "to_bytes")
         /\ req[r1].stream = req[r2].stream )
       => /\ req[r1].pc = req[r2].pc
          /\ req[r1].responses = req[r2].responses

C9_Witness ==
    \E r1, r2 \in Requests :
       /\ r1 # r2
       /\ req[r1].pc = "done" /\ req[r2].pc = "done"
       /\ req[r1].stream = "png_a" /\ req[r2].stream = "png_a"
       /\ req[r1].responses = <<Response(200, <<"A">>)>>
       /\ req[r2].responses = req[r1].responses
       /\ OCR_ENGINE.behaviour["png_b"].texts # OCR_ENGINE.behaviour["png_a"].texts

StageOrder ==
    <<"to_bytes", "load_from_memory_with_format", "prepare_input",
      "detect_words", "find_text_lines", "recognize_text",
      "format_text_output">>

StagePc ==
    <<"to_bytes", "decode", "prepare", "detect", "find_lines", "recognize",
      "format", "respond">>

\* C10: the steps taken for a request are a prefix of the fixed order, each
\* taken once and only after all earlier ones succeeded; the request is at
\* the next stage, or has ended; it has at most one response, sent last,
\* and a 200 only after all seven steps succeeded.
C10_OnePassInOrder ==
    \A r \in Requests :
       LET q == req[r]
           n == Len(q.calls)
       IN  /\ n <= Len(StageOrder)
           /\ \A i \in 1..n : q.calls[i].op = StageOrder[i]
           /\ \A i \in 1..(n - 1) : q.calls[i].ok
           /\ q.pc = "idle" => n = 0
           /\ q.pc \notin {"idle", "done", "aborted"}
              => /\ q.pc = StagePc[n + 1]
                 /\ \A i \in 1..n : q.calls[i].ok
           /\ Len(q.responses) <= 1
           /\ Len(q.responses) = 1 => q.pc = "done"
           /\ (Len(q.responses) = 1 /\ q.responses[1].status = 200)
              => /\ n = Len(StageOrder)
                 /\ \A i \in 1..n : q.calls[i].ok
                 /\ Succeeded(q, "recognize_text")

C10_Witness ==
    \E r \in Requests :
       /\ req[r].pc = "done"
       /\ Len(req[r].calls) = 7
       /\ req[r].responses[1].status = 200

====
